---- MODULE Spec2Model ----
(***************************************************************************)
(* whisper-speak (wkey): hold a key, speak, release, and the transcript is *)
(* typed into the focused application.                                     *)
(*                                                                         *)
(* The model covers the hotkey configuration store and its capture state   *)
(* machine (key_config.py), the GUI key listener, audio callback and       *)
(* processing task (gui_pyqt.py; gui.py has the same handlers), and the    *)
(* headless pipeline (wkey.py).                                            *)
(*                                                                         *)
(* Python objects are records: kc is the KeyConfig singleton, gui the      *)
(* WKeyGUI window, cli the module globals of wkey.py.  A handler is an     *)
(* operator from a "world" record (kc, gui, disk, ...) to the world after  *)
(* the handler; an action applies it to the variables.                     *)
(***************************************************************************)
EXTENDS Integers, Sequences, FiniteSets, TLC

VARIABLES
  kc,        \* the KeyConfig object (key_config.py:50-66)
  gui,       \* the WKeyGUI fields (gui_pyqt.py:583-593)
  disk,      \* ~/.wkey_config: whether it can be written, and its content
  ev,        \* the callbacks fired by the latest handler, in order
  last,      \* the branch taken by the latest handler or thread step
  lpc,       \* position of the key listener thread inside a handler
  tasks,     \* the processing threads started by _on_key_release
  cb,        \* position of the audio callback thread
  sess,      \* id of the recording session opened last (race specification)
  accepted,  \* per session: frame blocks the audio callback accepted
  cli        \* module globals of wkey.py and the state of its listener

vars == <<kc, gui, disk, ev, last, lpc, tasks, cb, sess, accepted, cli>>

-----------------------------------------------------------------------------
(* Bounds of the model *)

\* Frame blocks per recording, session ids, and processing threads alive at
\* once in the pipeline, capture and race specifications.
MaxFrames == 2
MaxSessions == 3
MaxTasks == 2
MaxCaptureTasks == 1
MaxFairTasks == 1
MaxRaceTasks == 1

-----------------------------------------------------------------------------
(* Keys.  pynput delivers either a member of the enum Key or a KeyCode     *)
(* (char, vk, is_dead).  None is "None" for strings and NoVk for codes.    *)

None == "None"
NoVk == -1

NoKey == [t |-> "None", name |-> None, char |-> None, vk |-> NoVk, is_dead |-> FALSE]
KeyEnum(n) == [t |-> "Key", name |-> n, char |-> None, vk |-> NoVk, is_dead |-> FALSE]
KeyCodeOf(c, v, d) == [t |-> "KeyCode", name |-> None, char |-> c, vk |-> v, is_dead |-> d]
from_char(c) == KeyCodeOf(c, NoVk, FALSE)
from_vk(v) == KeyCodeOf(None, v, FALSE)

Key_esc == KeyEnum("esc")
Key_backspace == KeyEnum("backspace")
Key_ctrl_l == KeyEnum("ctrl_l")
Key_ctrl == KeyEnum("ctrl")
Key_ctrl_r == KeyEnum("ctrl_r")
Key_shift == KeyEnum("shift")
Key_shift_l == KeyEnum("shift_l")
Key_shift_r == KeyEnum("shift_r")

\* The names of the enum Key that the model uses.
KeyNames == {"esc", "backspace", "ctrl", "ctrl_l", "ctrl_r", "shift", "shift_l", "shift_r"}

CHANGE_MODE_MODIFIERS == {Key_ctrl, Key_ctrl_l, Key_ctrl_r}
CHANGE_MODE_SHIFT == {Key_shift, Key_shift_l, Key_shift_r}
CHANGE_MODE_TRIGGER == from_char("k")
AUTO_ENTER_TOGGLE_TRIGGER == from_char("e")

\* Python's key1 == key2: enum members are equal to themselves only; two
\* KeyCodes compare by char when both have one, else by vk.
PyEq(a, b) ==
  IF a.t # b.t THEN FALSE
  ELSE IF a.t = "Key" THEN a.name = b.name
  ELSE IF a.t = "KeyCode" THEN
    IF a.char # None /\ b.char # None
    THEN a.char = b.char /\ a.is_dead = b.is_dead
    ELSE a.vk = b.vk
  ELSE TRUE

\* key in {set of enum members}
InKeySet(key, S) == \E m \in S : PyEq(key, m)

key_to_label(key) ==
  IF key.t = "Key" THEN key.name
  ELSE IF key.t = "KeyCode" /\ key.char # None THEN key.char
  ELSE IF key.t = "KeyCode" /\ key.vk # NoVk THEN "vk_" \o ToString(key.vk)
  ELSE "<" \o ToString(key.vk) \o ">"

\* The vk codes a vk_<n> label is parsed for.
VkCodes == {65, 101}

\* A parser without the vk_<code> branch.
label_to_key_without_vk(label) ==
  IF label \in KeyNames THEN KeyEnum(label)
  ELSE IF Len(label) = 1 THEN from_char(label)
  ELSE Key_ctrl_l

label_to_key(label) ==
  IF label \in KeyNames THEN KeyEnum(label)
  ELSE IF Len(label) = 1 THEN from_char(label)
  ELSE IF \E n \in VkCodes : label = "vk_" \o ToString(n)
    THEN from_vk(CHOOSE n \in VkCodes : label = "vk_" \o ToString(n))
  ELSE Key_ctrl_l

keys_are_equal(key1, key2) ==
  IF key1.t = "None" \/ key2.t = "None" THEN FALSE
  ELSE IF PyEq(key1, key2) THEN TRUE
  ELSE key_to_label(key1) = key_to_label(key2)

-----------------------------------------------------------------------------
(* KeyConfig: the store *)

\* The record _save_config writes.
ConfigRecord(k) ==
  [hotkey |-> k.hotkey_label, auto_enter |-> k.auto_enter,
   auto_enter_key |-> k.auto_enter_key_label, language |-> k.language,
   use_llm |-> k.use_llm, send_mode |-> k.send_mode]

\* ok: whether the write of the file succeeds (IOError otherwise).
save_config(w, ok) ==
  IF ok THEN [w EXCEPT !.disk.file = ConfigRecord(w.kc), !.ret = TRUE]
  ELSE [w EXCEPT !.ret = FALSE]

set_hotkey(w, key, ok) ==
  save_config([w EXCEPT !.kc.hotkey_label = key_to_label(key),
                        !.kc.hotkey = key], ok)

toggle_auto_enter(w, ok) ==
  LET w1 == save_config([w EXCEPT !.kc.auto_enter = ~w.kc.auto_enter], ok)
  IN [w1 EXCEPT !.ret = w1.kc.auto_enter]

Fire(w, name, old, new) ==
  [w EXCEPT !.ev = Append(w.ev, [cb |-> name, old |-> old, new |-> new])]

\* The slots of the signals hotkey_changed and auto_enter_key_changed: the
\* button shows the bound key again and can be clicked.
update_hotkey_display(w) == [w EXCEPT !.gui.hotkey_button_enabled = TRUE]

update_auto_enter_key_display(w) == [w EXCEPT !.gui.auto_enter_button_enabled = TRUE]

\* WKeyGUI._on_hotkey_change, the registered change callback of the GUI.
on_hotkey_change(w, old, new) ==
  Fire(update_hotkey_display([w EXCEPT !.gui.gui_hotkey_change_mode = FALSE]),
       "hotkey_change", old, new)

\* WKeyGUI._on_auto_enter_key_change
on_auto_enter_key_change(w, old, new) ==
  Fire(update_auto_enter_key_display(
         [w EXCEPT !.gui.gui_auto_enter_key_change_mode = FALSE]),
       "auto_enter_key_change", old, new)

\* WKeyGUI._on_auto_enter_change
on_auto_enter_change(w, new_state) ==
  Fire(update_auto_enter_key_display(w), "auto_enter_change", NoKey,
       IF new_state THEN Key_ctrl ELSE NoKey)

\* self._change_callback(old, new): the GUI registers its method, wkey.py a
\* function that prints.
call_change_callback(w, old, new) ==
  IF w.kc.change_callback = "gui" THEN on_hotkey_change(w, old, new)
  ELSE IF w.kc.change_callback = "cli" THEN Fire(w, "hotkey_change", old, new)
  ELSE w

call_auto_enter_key_callback(w, old, new) ==
  IF w.kc.auto_enter_key_callback = "gui" THEN on_auto_enter_key_change(w, old, new)
  ELSE w

call_auto_enter_callback(w, new_state) ==
  IF w.kc.auto_enter_callback = "gui" THEN on_auto_enter_change(w, new_state)
  ELSE w

set_auto_enter_key(w, key, ok) ==
  LET old == w.kc.auto_enter_key
      w1 == save_config([w EXCEPT !.kc.auto_enter_key_label = key_to_label(key),
                                  !.kc.auto_enter_key = key,
                                  !.kc.auto_enter = TRUE], ok)
  IN IF w1.ret THEN [call_auto_enter_key_callback(w1, old, key) EXCEPT !.ret = TRUE]
     ELSE w1

clear_auto_enter_key(w, ok) ==
  LET old == w.kc.auto_enter_key
      w1 == save_config([w EXCEPT !.kc.auto_enter_key_label = None,
                                  !.kc.auto_enter_key = NoKey,
                                  !.kc.auto_enter = FALSE], ok)
  IN IF w1.ret THEN [call_auto_enter_key_callback(w1, old, NoKey) EXCEPT !.ret = TRUE]
     ELSE w1

is_in_change_mode(k) == k.in_change_mode \/ k.in_auto_enter_key_change_mode

-----------------------------------------------------------------------------
(* KeyConfig: the capture state machine *)

enter_change_mode(w) == [w EXCEPT !.kc.in_change_mode = TRUE]

exit_change_mode(w) ==
  [w EXCEPT !.kc.in_change_mode = FALSE, !.kc.pressed_modifiers = {}]

enter_auto_enter_key_change_mode(w) ==
  [w EXCEPT !.kc.in_auto_enter_key_change_mode = TRUE]

exit_auto_enter_key_change_mode(w) ==
  [w EXCEPT !.kc.in_auto_enter_key_change_mode = FALSE, !.kc.pressed_modifiers = {}]

Took(w, p) == [w EXCEPT !.path = p, !.ret = TRUE]

\* A hotkey capture that binds without looking at the auto-enter key.
capture_new_hotkey_unchecked(w, key, ok) ==
  IF PyEq(key, Key_esc) THEN Took(exit_change_mode(w), "hk_esc")
  ELSE
    LET old == w.kc.hotkey
        w1 == set_hotkey(w, key, ok)
        w2 == IF w1.ret THEN call_change_callback(w1, old, w1.kc.hotkey) ELSE w1
    IN Took(exit_change_mode(w2), IF w1.ret THEN "hk_bound" ELSE "hk_savefail")

\* An auto-enter capture that treats the bound hotkey as any other candidate.
capture_new_auto_enter_key_unchecked(w, key, ok) ==
  IF PyEq(key, Key_esc) THEN Took(exit_auto_enter_key_change_mode(w), "ae_esc")
  ELSE IF PyEq(key, Key_backspace)
    THEN Took(exit_auto_enter_key_change_mode(clear_auto_enter_key(w, ok)), "ae_clear")
  ELSE
    LET w1 == set_auto_enter_key(w, key, ok)
    IN Took(exit_auto_enter_key_change_mode(w1),
            IF w1.ret THEN "ae_bound" ELSE "ae_savefail")

capture_new_hotkey(w, key, ok) ==
  IF PyEq(key, Key_esc) THEN Took(exit_change_mode(w), "hk_esc")
  ELSE IF keys_are_equal(key, w.kc.auto_enter_key)
    THEN Took(exit_change_mode(w), "hk_conflict")
  ELSE
    LET old == w.kc.hotkey
        w1 == set_hotkey(w, key, ok)
        w2 == IF w1.ret THEN call_change_callback(w1, old, w1.kc.hotkey) ELSE w1
    IN Took(exit_change_mode(w2), IF w1.ret THEN "hk_bound" ELSE "hk_savefail")

\* An auto-enter capture that looks for a conflict before it looks for
\* Backspace.
capture_new_auto_enter_key_conflict_first(w, key, ok) ==
  IF PyEq(key, Key_esc) THEN Took(exit_auto_enter_key_change_mode(w), "ae_esc")
  ELSE IF keys_are_equal(key, w.kc.hotkey)
    THEN Took(exit_auto_enter_key_change_mode(w), "ae_conflict")
  ELSE IF PyEq(key, Key_backspace)
    THEN Took(exit_auto_enter_key_change_mode(clear_auto_enter_key(w, ok)), "ae_clear")
  ELSE
    LET w1 == set_auto_enter_key(w, key, ok)
    IN Took(exit_auto_enter_key_change_mode(w1),
            IF w1.ret THEN "ae_bound" ELSE "ae_savefail")

\* An auto-enter capture in which Backspace is a key like any other.
capture_new_auto_enter_key_without_clear(w, key, ok) ==
  IF PyEq(key, Key_esc) THEN Took(exit_auto_enter_key_change_mode(w), "ae_esc")
  ELSE IF keys_are_equal(key, w.kc.hotkey)
    THEN Took(exit_auto_enter_key_change_mode(w), "ae_conflict")
  ELSE
    LET w1 == set_auto_enter_key(w, key, ok)
    IN Took(exit_auto_enter_key_change_mode(w1),
            IF w1.ret THEN "ae_bound" ELSE "ae_savefail")

capture_new_auto_enter_key(w, key, ok) ==
  IF PyEq(key, Key_esc) THEN Took(exit_auto_enter_key_change_mode(w), "ae_esc")
  ELSE IF PyEq(key, Key_backspace)
    THEN Took(exit_auto_enter_key_change_mode(clear_auto_enter_key(w, ok)), "ae_clear")
  ELSE IF keys_are_equal(key, w.kc.hotkey)
    THEN Took(exit_auto_enter_key_change_mode(w), "ae_conflict")
  ELSE
    LET w1 == set_auto_enter_key(w, key, ok)
    IN Took(exit_auto_enter_key_change_mode(w1),
            IF w1.ret THEN "ae_bound" ELSE "ae_savefail")

\* The except clause of _capture_new_hotkey: an exception raised inside the
\* try body at the point at.  "setter": in set_hotkey before it assigns;
\* "persist": in _save_config, other than IOError, after set_hotkey assigned;
\* "callback": in the change callback of the GUI, at the emit after it
\* cleared its flag.
capture_new_hotkey_except(w, key, at) ==
  LET w1 == IF at = "setter" THEN w
            ELSE IF at = "persist"
              THEN [w EXCEPT !.kc.hotkey_label = key_to_label(key), !.kc.hotkey = key]
            ELSE [set_hotkey(w, key, TRUE) EXCEPT !.gui.gui_hotkey_change_mode = FALSE]
  IN Took(exit_change_mode(w1), "hk_error")

\* The except clause of _capture_new_auto_enter_key.
capture_new_auto_enter_key_except(w, key, at) ==
  LET a == [w EXCEPT !.kc.auto_enter_key_label = key_to_label(key),
                     !.kc.auto_enter_key = key,
                     !.kc.auto_enter = TRUE]
      w1 == IF at = "setter" THEN w
            ELSE IF at = "persist" THEN a
            ELSE [save_config(a, TRUE) EXCEPT !.gui.gui_auto_enter_key_change_mode = FALSE]
  IN Took(exit_auto_enter_key_change_mode(w1), "ae_error")

\* A chord detector that does not look at the capture mode.
handle_key_press_chord_always(w, key, ok) ==
  LET w0 == IF InKeySet(key, CHANGE_MODE_MODIFIERS) \/ InKeySet(key, CHANGE_MODE_SHIFT)
            THEN [w EXCEPT !.kc.pressed_modifiers = @ \cup {key}]
            ELSE w
      has_ctrl == \E k \in CHANGE_MODE_MODIFIERS : k \in w0.kc.pressed_modifiers
      has_shift == \E k \in CHANGE_MODE_SHIFT : k \in w0.kc.pressed_modifiers
  IN IF has_ctrl /\ has_shift /\ PyEq(key, CHANGE_MODE_TRIGGER)
       THEN Took(enter_change_mode(w0), "chord_k")
     ELSE IF has_ctrl /\ has_shift /\ PyEq(key, AUTO_ENTER_TOGGLE_TRIGGER)
       THEN LET w1 == toggle_auto_enter(w0, ok)
            IN Took(call_auto_enter_callback(w1, w1.ret), "chord_e")
     ELSE IF ~w0.kc.in_change_mode THEN [w0 EXCEPT !.ret = FALSE]
     ELSE capture_new_hotkey(w0, key, ok)

handle_key_press(w, key, ok) ==
  LET w0 == IF InKeySet(key, CHANGE_MODE_MODIFIERS) \/ InKeySet(key, CHANGE_MODE_SHIFT)
            THEN [w EXCEPT !.kc.pressed_modifiers = @ \cup {key}]
            ELSE w
      has_ctrl == \E k \in CHANGE_MODE_MODIFIERS : k \in w0.kc.pressed_modifiers
      has_shift == \E k \in CHANGE_MODE_SHIFT : k \in w0.kc.pressed_modifiers
  IN IF ~w0.kc.in_change_mode THEN
       IF has_ctrl /\ has_shift /\ PyEq(key, CHANGE_MODE_TRIGGER)
       THEN Took(enter_change_mode(w0), "chord_k")
       ELSE IF has_ctrl /\ has_shift /\ PyEq(key, AUTO_ENTER_TOGGLE_TRIGGER)
       THEN LET w1 == toggle_auto_enter(w0, ok)
            IN Took(call_auto_enter_callback(w1, w1.ret), "chord_e")
       ELSE [w0 EXCEPT !.ret = FALSE]
     ELSE capture_new_hotkey(w0, key, ok)

\* A release handler that tracks modifiers only while no capture is active.
handle_key_release_idle_only(w, key) ==
  IF is_in_change_mode(w.kc) THEN w
  ELSE [w EXCEPT !.kc.pressed_modifiers = {m \in @ : ~PyEq(m, key)}]

handle_key_release(w, key) ==
  [w EXCEPT !.kc.pressed_modifiers = {m \in @ : ~PyEq(m, key)}]

-----------------------------------------------------------------------------
(* KeyConfig: construction *)

\* A configuration file without any field; an absent file loads the same.
EmptyFile ==
  [hotkey |-> None, auto_enter |-> FALSE, auto_enter_key |-> None,
   language |-> "sv", use_llm |-> FALSE, send_mode |-> "cmd+enter"]

\* __init__ and _load_config; callbacks names the program that registers them.
load_config(file, callbacks) ==
  LET label == IF file.hotkey = None THEN "ctrl_l" ELSE file.hotkey
  IN [hotkey_label |-> label,
      hotkey |-> label_to_key(label),
      auto_enter |-> file.auto_enter,
      auto_enter_key_label |-> file.auto_enter_key,
      auto_enter_key |-> IF file.auto_enter_key # None /\ file.auto_enter_key # ""
                         THEN label_to_key(file.auto_enter_key) ELSE NoKey,
      language |-> file.language,
      use_llm |-> file.use_llm,
      send_mode |-> file.send_mode,
      in_change_mode |-> FALSE,
      in_auto_enter_key_change_mode |-> FALSE,
      pressed_modifiers |-> {},
      change_callback |-> callbacks,
      auto_enter_callback |-> IF callbacks = "gui" THEN "gui" ELSE None,
      auto_enter_key_callback |-> IF callbacks = "gui" THEN "gui" ELSE None]

\* KeyConfig() for a configuration file d: d.kind says what is at the path
\* (no file, a file that cannot be opened, bytes that are no text, text that
\* is no JSON, JSON that is no object, an object), d.file holds the fields of
\* an object and d.types says which label of the object is a number instead
\* of a string.  raised: an exception leaves __init__.
KeyConfig_init(d, callbacks) ==
  LET defaults == load_config(EmptyFile, callbacks)
      unset == [defaults EXCEPT !.hotkey_label = None, !.hotkey = NoKey]
  IN CASE d.kind \in {"absent", "unreadable", "invalid_json"} ->
            [raised |-> FALSE, kc |-> defaults]
       [] d.kind \in {"undecodable", "not_object"} ->
            [raised |-> TRUE, kc |-> unset]
       [] d.kind = "object" ->
            IF d.types = "hotkey_number"
               \/ (d.types = "auto_enter_key_number" /\ d.file.auto_enter_key # None)
            THEN [raised |-> TRUE, kc |-> unset]
            ELSE [raised |-> FALSE, kc |-> load_config(d.file, callbacks)]

-----------------------------------------------------------------------------
(* WKeyGUI: the key listener *)

World ==
  [kc |-> kc, gui |-> gui, disk |-> disk, ev |-> <<>>, ret |-> FALSE,
   path |-> "none", lpc |-> "idle"]

\* The end of the trigger branch of _on_key_press: the frame list is replaced
\* by a new empty list and the status becomes Recording.
on_key_press_rest(g) == [g EXCEPT !.audio_data = <<>>, !.status = "recording"]

\* _on_key_press up to and including the assignments of _recording and
\* _recording_with_auto_enter; lpc "press2" says that on_key_press_rest is
\* still to run.
on_key_press(w, key, ok) ==
  IF w.gui.gui_hotkey_change_mode THEN capture_new_hotkey(w, key, ok)
  ELSE IF w.gui.gui_auto_enter_key_change_mode THEN capture_new_auto_enter_key(w, key, ok)
  ELSE
    LET w1 == handle_key_press(w, key, ok)
    IN IF w1.ret THEN w1
       ELSE IF is_in_change_mode(w1.kc) THEN [w1 EXCEPT !.path = "skip"]
       ELSE IF PyEq(key, w1.kc.hotkey)
         THEN [w1 EXCEPT !.gui.recording = TRUE,
                         !.gui.recording_with_auto_enter = FALSE,
                         !.lpc = "press2", !.path = "rec_hotkey"]
       ELSE IF PyEq(key, w1.kc.auto_enter_key)
         THEN [w1 EXCEPT !.gui.recording = TRUE,
                         !.gui.recording_with_auto_enter = TRUE,
                         !.lpc = "press2", !.path = "rec_auto"]
       ELSE [w1 EXCEPT !.path = "none"]

\* _on_key_press for a key whose capture raises at the point at.
on_key_press_except(w, key, at) ==
  IF w.gui.gui_hotkey_change_mode THEN capture_new_hotkey_except(w, key, at)
  ELSE IF w.gui.gui_auto_enter_key_change_mode
    THEN capture_new_auto_enter_key_except(w, key, at)
  ELSE capture_new_hotkey_except(w, key, at)

\* _on_key_release; path "handoff" means the handler copied the frames and
\* started a processing thread.
on_key_release(w, key) ==
  LET w1 == handle_key_release(w, key)
  IN IF is_in_change_mode(w1.kc) \/ w1.gui.gui_hotkey_change_mode
        \/ w1.gui.gui_auto_enter_key_change_mode
     THEN [w1 EXCEPT !.path = "skip"]
     ELSE IF (PyEq(key, w1.kc.hotkey) \/ PyEq(key, w1.kc.auto_enter_key))
             /\ w1.gui.recording
       THEN [w1 EXCEPT !.gui.recording = FALSE, !.gui.status = "processing",
                       !.path = "handoff"]
     ELSE [w1 EXCEPT !.path = "none"]

\* The UI thread: the slot of the hotkey button and of the auto-enter button.
exit_gui_hotkey_change_mode(w) ==
  exit_change_mode(update_hotkey_display([w EXCEPT !.gui.gui_hotkey_change_mode = FALSE]))

enter_gui_hotkey_change_mode(w) ==
  IF w.gui.gui_hotkey_change_mode
  THEN [exit_gui_hotkey_change_mode(w) EXCEPT !.path = "ui_cancel"]
  ELSE [enter_change_mode([w EXCEPT !.gui.gui_hotkey_change_mode = TRUE,
                                    !.gui.hotkey_button_enabled = FALSE])
          EXCEPT !.path = "ui_enter"]

exit_gui_auto_enter_key_change_mode(w) ==
  exit_auto_enter_key_change_mode(
    update_auto_enter_key_display([w EXCEPT !.gui.gui_auto_enter_key_change_mode = FALSE]))

enter_gui_auto_enter_key_change_mode(w) ==
  IF w.gui.gui_auto_enter_key_change_mode
  THEN [exit_gui_auto_enter_key_change_mode(w) EXCEPT !.path = "ui_cancel"]
  ELSE [enter_auto_enter_key_change_mode(
          [w EXCEPT !.gui.gui_auto_enter_key_change_mode = TRUE,
                    !.gui.auto_enter_button_enabled = FALSE])
          EXCEPT !.path = "ui_enter"]

-----------------------------------------------------------------------------
(* WKeyGUI: the processing thread *)

TaskIds == DOMAIN tasks

IdleTask == [pc |-> "idle", audio |-> <<>>, uae |-> FALSE, sess |-> 0]

FreeSlot == CHOOSE t \in TaskIds : tasks[t].pc = "idle" /\ \A u \in TaskIds : tasks[u].pc = "idle" => t <= u

\* Samples per frame block delivered by the audio stream, and the sample rate.
BlockSamples == 4000
SampleRate == 16000
\* MIN_AUDIO_DURATION_SECONDS = 0.5 as the fraction MinDurNum / MinDurDen.
MinDurNum == 1
MinDurDen == 2
\* Mean squares in units of 10^-6; MIN_RMS_THRESHOLD = 0.005 squared is 25.
MinMeanSquare == 25
BlockLevels == {0, 100}

RECURSIVE SumMsq(_)
SumMsq(s) == IF s = <<>> THEN 0 ELSE Head(s).msq + SumMsq(Tail(s))

\* Gates without the duration gate.
AudioGate_without_duration(audio) ==
  IF audio = <<>> THEN "empty"
  ELSE IF SumMsq(audio) < MinMeanSquare * Len(audio) THEN "silent"
  ELSE "pass"

\* The gates of _process_audio before the transcription call.
AudioGate(audio) ==
  IF audio = <<>> THEN "empty"
  ELSE IF Len(audio) * BlockSamples * MinDurDen < MinDurNum * SampleRate THEN "too_short"
  ELSE IF SumMsq(audio) < MinMeanSquare * Len(audio) THEN "silent"
  ELSE "pass"

\* The finally clause of _process_audio (and the _set_status(STATUS_READY)
\* before each early return): the thread ends with status Ready.
finish(g) == [g EXCEPT !.status = "ready"]

-----------------------------------------------------------------------------
(* WKeyGUI._process_audio as a function of its arguments and of what the   *)
(* external calls answer.  A text is a sequence of characters.             *)

UpperCase ==
  <<"A", "B", "C", "D", "E", "F", "G", "H", "I", "J", "K", "L", "M",
    "N", "O", "P", "Q", "R", "S", "T", "U", "V", "W", "X", "Y", "Z">>

LowerCase ==
  <<"a", "b", "c", "d", "e", "f", "g", "h", "i", "j", "k", "l", "m",
    "n", "o", "p", "q", "r", "s", "t", "u", "v", "w", "x", "y", "z">>

WhiteSpace == {" ", "\t", "\n"}

\* str.lower
lower(s) ==
  [i \in 1..Len(s) |->
     IF \E j \in 1..Len(UpperCase) : UpperCase[j] = s[i]
     THEN LowerCase[CHOOSE j \in 1..Len(UpperCase) : UpperCase[j] = s[i]]
     ELSE s[i]]

\* str.strip
RECURSIVE lstrip(_)
lstrip(s) == IF s # <<>> /\ Head(s) \in WhiteSpace THEN lstrip(Tail(s)) ELSE s

RECURSIVE rstrip(_)
rstrip(s) ==
  IF s # <<>> /\ s[Len(s)] \in WhiteSpace THEN rstrip(SubSeq(s, 1, Len(s) - 1)) ELSE s

\* A trim that removes nothing.
strip_nothing(s) == s

strip(s) == rstrip(lstrip(s))

\* str.startswith
startswith(s, p) == Len(p) <= Len(s) /\ SubSeq(s, 1, Len(p)) = p

MIN_TRANSCRIPT_LENGTH == 2

HALLUCINATION_PHRASES ==
  {<<"t", "a", "c", "k", " ", "a", "l", "l", "a", " ", "s", "o", "m", " ", "t", "i", "t", "t", "a", "t">>,
   <<"t", "h", "a", "n", "k", "s", " ", "f", "o", "r", " ", "w", "a", "t", "c", "h", "i", "n", "g">>,
   <<"t", "h", "a", "n", "k", " ", "y", "o", "u", " ", "f", "o", "r", " ", "w", "a", "t", "c", "h", "i", "n", "g">>,
   <<"s", "u", "b", "s", "c", "r", "i", "b", "e">>,
   <<"l", "i", "k", "e", " ", "a", "n", "d", " ", "s", "u", "b", "s", "c", "r", "i", "b", "e">>,
   <<"s", "e", "e", " ", "y", "o", "u", " ", "n", "e", "x", "t", " ", "t", "i", "m", "e">>,
   <<"b", "y", "e", " ", "b", "y", "e">>,
   <<"g", "o", "o", "d", "b", "y", "e">>,
   <<"m", "u", "s", "i", "c">>,
   <<"a", "p", "p", "l", "a", "u", "s", "e">>,
   <<"[", "m", "u", "s", "i", "c", "]">>,
   <<"[", "a", "p", "p", "l", "a", "u", "s", "e", "]">>,
   <<"y", "o", "u">>,
   <<".", ".", ".">>,
   <<"t", "h", "e", " ", "e", "n", "d">>,
   <<"s", "u", "b", "t", "i", "t", "l", "e", "s", " ", "b", "y">>,
   <<"c", "a", "p", "t", "i", "o", "n", "s", " ", "b", "y">>}

\* A filter that drops only a transcript that is exactly a phrase.
is_hallucination_exact(transcript) == transcript \in HALLUCINATION_PHRASES

is_hallucination(transcript) ==
  LET transcript_lower == lower(strip(transcript))
  IN \E phrase \in HALLUCINATION_PHRASES :
       transcript_lower = phrase \/ startswith(transcript_lower, phrase)

\* utils.process_transcript
process_transcript(transcript) == Append(transcript, " ")

\* What the thread does to the outside: [e |-> the call, arg |-> its argument].
Effect(e, arg) == [e |-> e, arg |-> arg]

\* A correction whose failure loses the transcript.
apply_gpt_correction_without_fallback(transcript, instruction, answer) ==
  IF strip(instruction) = <<>>
  THEN [text |-> transcript, effects |-> <<>>]
  ELSE [text |-> IF answer.kind = "raise" THEN <<>> ELSE strip(answer.text),
        effects |-> <<Effect("correct", transcript)>>]

\* utils.apply_gpt_correction; answer is what the correction service does.
\* The result is the text and the calls made.
apply_gpt_correction(transcript, instruction, answer) ==
  IF strip(instruction) = <<>>
  THEN [text |-> transcript, effects |-> <<>>]
  ELSE [text |-> IF answer.kind = "raise" THEN transcript ELSE strip(answer.text),
        effects |-> <<Effect("correct", transcript)>>]

\* The modifier keys released before the submit keystroke, in order.
SubmitModifiers ==
  <<"shift", "shift_l", "shift_r", "ctrl", "ctrl_l", "ctrl_r",
    "alt", "alt_l", "alt_r", "cmd", "cmd_l", "cmd_r">>

\* A submit keystroke that lets go of Cmd before Enter, and sends Enter
\* before the modifiers are released.
submit_effects_unordered(send_mode, submit) ==
  LET releases == [i \in 1..Len(SubmitModifiers) |->
                     Effect("release", <<SubmitModifiers[i]>>)]
  IN IF submit = "raise" THEN releases
     ELSE IF send_mode = "cmd+enter"
       THEN releases \o <<Effect("press", <<"cmd">>), Effect("press", <<"enter">>),
                          Effect("release", <<"cmd">>), Effect("release", <<"enter">>)>>
     ELSE <<Effect("press", <<"enter">>), Effect("release", <<"enter">>)>> \o releases

\* The auto-enter branch: the releases, then the keystroke of the send mode.
\* A controller that raises at the first press injects nothing more.
submit_effects(send_mode, submit) ==
  LET releases == [i \in 1..Len(SubmitModifiers) |->
                     Effect("release", <<SubmitModifiers[i]>>)]
  IN IF submit = "raise" THEN releases
     ELSE IF send_mode = "cmd+enter"
       THEN releases \o <<Effect("press", <<"cmd">>), Effect("press", <<"enter">>),
                          Effect("release", <<"enter">>), Effect("release", <<"cmd">>)>>
     ELSE releases \o <<Effect("press", <<"enter">>), Effect("release", <<"enter">>)>>

\* _process_audio(audio_data, use_auto_enter).  c holds the settings read by
\* the thread (use_llm, prompt, send_mode) and the answers of the outside:
\* ffmpeg, whisper, correct, type, submit.  A prompt that is None or "" is
\* the empty text.  ffmpeg is "ok", "fail" (not installed or a non-zero
\* exit) or "error" (any other exception of subprocess.run); whisper raises
\* an error whose text has "Invalid" or "audio" (err_invalid), a ValueError
\* without them (err_value) or another exception (err_other).  The result is
\* the calls made, in order, with a log effect for the line the last except
\* clause prints, and the exit taken; every exit passes the finally clause.
process_audio(audio_data, use_auto_enter, c) ==
  LET gate == AudioGate(audio_data)
      encoded == <<Effect("write_wav", <<>>), Effect("ffmpeg", <<>>)>>
      called == Append(encoded,
                       Effect("whisper", <<IF c.ffmpeg = "ok" THEN "m4a" ELSE "wav">>))
      transcript == c.whisper.text
      corrected == IF c.use_llm /\ c.prompt # <<>>
                   THEN apply_gpt_correction(transcript, c.prompt, c.correct)
                   ELSE [text |-> transcript, effects |-> <<>>]
      typed == Append(called \o corrected.effects,
                      Effect("type", process_transcript(corrected.text)))
      log == <<Effect("log", <<>>)>>
  IN IF gate # "pass" THEN [effects |-> <<>>, reason |-> gate]
     ELSE IF c.ffmpeg = "error"
       THEN [effects |-> encoded \o log, reason |-> "encoder_error"]
     ELSE IF c.whisper.kind = "err_invalid"
       THEN [effects |-> called, reason |-> "svc_recoverable"]
     ELSE IF c.whisper.kind = "err_value"
       THEN [effects |-> called, reason |-> "svc_value_error"]
     ELSE IF c.whisper.kind = "err_other"
       THEN [effects |-> called \o log, reason |-> "svc_error"]
     ELSE IF transcript = <<>> \/ Len(strip(transcript)) < MIN_TRANSCRIPT_LENGTH
       THEN [effects |-> called, reason |-> "short_text"]
     ELSE IF is_hallucination(transcript)
       THEN [effects |-> called, reason |-> "hallucination"]
     ELSE IF c.type = "raise"
       THEN [effects |-> called \o corrected.effects \o log, reason |-> "type_error"]
     ELSE IF use_auto_enter
       THEN [effects |-> typed \o submit_effects(c.send_mode, c.submit),
             reason |-> "typed"]
     ELSE [effects |-> typed, reason |-> "typed"]

-----------------------------------------------------------------------------
(* Initial states *)

\* Configuration files the program is started with.
FileDefault == EmptyFile
FileBothKeys == [EmptyFile EXCEPT !.hotkey = "ctrl_l", !.auto_enter = TRUE,
                                  !.auto_enter_key = "k"]

NoFrame == [sess |-> 0, msq |-> 0]
SessionIds == 1..MaxSessions

\* WKeyGUI.__init__
InitGui(prompt) ==
  [status |-> "ready", recording |-> FALSE, audio_data |-> <<>>,
   current_prompt |-> prompt, gui_hotkey_change_mode |-> FALSE,
   gui_auto_enter_key_change_mode |-> FALSE, recording_with_auto_enter |-> FALSE,
   hotkey_button_enabled |-> TRUE, auto_enter_button_enabled |-> TRUE,
   ui_pc |-> "idle"]

\* wkey.py at import: the listener is idle in no callback (pc) and runs (alive).
InitCli ==
  [recording |-> FALSE, audio_data |-> <<>>, current_prompt |-> "fix grammar",
   pc |-> "idle", alive |-> TRUE]

InitCommon(ntasks) ==
  /\ tasks = [t \in 1..ntasks |-> IdleTask]
  /\ ev = <<>>
  /\ last = "none"
  /\ lpc = "idle"
  /\ cb = [pc |-> "idle", frame |-> NoFrame]
  /\ sess = 0
  /\ accepted = [s \in SessionIds |-> 0]
  /\ cli = InitCli

\* The GUI with both trigger keys bound.
Init ==
  /\ disk \in {[writable |-> TRUE, file |-> [FileBothKeys EXCEPT !.use_llm = u]] :
                 u \in BOOLEAN}
  /\ kc = load_config(disk.file, "gui")
  /\ gui = InitGui("fix grammar")
  /\ InitCommon(MaxTasks)

\* The GUI started without a file or with both keys bound.
InitCapture ==
  /\ disk \in [writable : BOOLEAN, file : {FileDefault, FileBothKeys}]
  /\ kc = load_config(disk.file, "gui")
  /\ gui = InitGui(None)
  /\ InitCommon(MaxCaptureTasks)

-----------------------------------------------------------------------------
(* Actions of the key listener thread and of the UI thread *)

\* The session ids held by a live object: a thread, a frame, the open session.
IdsInUse ==
  {tasks[t].sess : t \in TaskIds} \cup {cb.frame.sess} \cup {sess}
    \cup {gui.audio_data[i].sess : i \in 1..Len(gui.audio_data)}

FreeIds == SessionIds \ IdsInUse

NewSessionId == CHOOSE s \in FreeIds : \A u \in FreeIds : s <= u

\* A key-down delivered to _on_key_press, handled in one step.
KeyPress(key) ==
  /\ lpc = "idle"
  /\ LET w == on_key_press(World, key, disk.writable)
     IN /\ kc' = w.kc /\ disk' = w.disk /\ ev' = w.ev
        /\ gui' = IF w.lpc = "press2" THEN on_key_press_rest(w.gui) ELSE w.gui
        /\ last' = w.path
  /\ UNCHANGED <<lpc, tasks, cb, sess, accepted, cli>>

\* A key-down delivered to _on_key_press while the audio callback thread
\* runs: the handler up to the assignment of _recording.  The session that
\* the key-down opens gets a session id no live frame or thread carries.
KeyPressBegin(key) ==
  /\ lpc = "idle"
  /\ LET w == on_key_press(World, key, disk.writable)
         opens == w.lpc = "press2"
     IN /\ opens => FreeIds # {}
        /\ kc' = w.kc /\ gui' = w.gui /\ disk' = w.disk /\ ev' = w.ev
        /\ lpc' = w.lpc
        /\ last' = w.path
        /\ sess' = IF opens THEN NewSessionId ELSE sess
        /\ accepted' = IF opens THEN [accepted EXCEPT ![NewSessionId] = 0]
                       ELSE accepted
  /\ UNCHANGED <<tasks, cb, cli>>

\* The rest of _on_key_press: self._audio_data = [] and the status.
PressFinish ==
  /\ lpc = "press2"
  /\ gui' = on_key_press_rest(gui)
  /\ lpc' = "idle"
  /\ UNCHANGED <<kc, disk, ev, last, tasks, cb, sess, accepted, cli>>

\* A key-down delivered to _on_key_press while a capture is armed, for a
\* candidate that reaches the setter, with an internal error at the point at.
KeyPressExcept(key, at) ==
  /\ lpc = "idle"
  /\ ~PyEq(key, Key_esc)
  /\ \/ gui.gui_hotkey_change_mode /\ ~keys_are_equal(key, kc.auto_enter_key)
     \/ /\ ~gui.gui_hotkey_change_mode /\ gui.gui_auto_enter_key_change_mode
        /\ ~PyEq(key, Key_backspace) /\ ~keys_are_equal(key, kc.hotkey)
     \/ /\ ~gui.gui_hotkey_change_mode /\ ~gui.gui_auto_enter_key_change_mode
        /\ kc.in_change_mode /\ ~keys_are_equal(key, kc.auto_enter_key)
  /\ LET w == on_key_press_except(World, key, at)
     IN /\ kc' = w.kc /\ gui' = w.gui /\ disk' = w.disk /\ ev' = w.ev
        /\ last' = w.path
  /\ UNCHANGED <<lpc, tasks, cb, sess, accepted, cli>>

\* A key-up delivered to _on_key_release; a handoff starts a thread on a copy
\* of the frame list.
KeyRelease(key) ==
  /\ lpc = "idle"
  /\ LET w == on_key_release(World, key)
     IN /\ (w.path = "handoff") => \E t \in TaskIds : tasks[t].pc = "idle"
        /\ kc' = w.kc /\ gui' = w.gui /\ disk' = w.disk /\ ev' = w.ev
        /\ last' = w.path
        /\ tasks' = IF w.path = "handoff"
                    THEN [tasks EXCEPT ![FreeSlot] =
                            [pc |-> "start", audio |-> gui.audio_data,
                             uae |-> gui.recording_with_auto_enter, sess |-> sess]]
                    ELSE tasks
  /\ UNCHANGED <<lpc, cb, sess, accepted, cli>>

\* A click on the hotkey button; a disabled button emits no click.
ClickHotkeyButton ==
  /\ gui.hotkey_button_enabled
  /\ LET w == enter_gui_hotkey_change_mode(World)
     IN /\ kc' = w.kc /\ gui' = w.gui /\ ev' = w.ev
        /\ last' = w.path
        /\ UNCHANGED <<disk, lpc, tasks, cb, sess, accepted, cli>>

\* A click on the hotkey button while the listener thread runs, statement by
\* statement: first _gui_hotkey_change_mode = True and the button disabled
\* (ui_pc "enter_hotkey" says the call of _enter_change_mode is still to
\* run), then _key_config._enter_change_mode().
ClickHotkeyStep ==
  /\ IF gui.ui_pc = "idle"
     THEN /\ gui.hotkey_button_enabled
          /\ ~gui.gui_hotkey_change_mode
          /\ gui' = [gui EXCEPT !.gui_hotkey_change_mode = TRUE,
                                !.hotkey_button_enabled = FALSE,
                                !.ui_pc = "enter_hotkey"]
          /\ last' = "ui_flag_set"
          /\ UNCHANGED kc
     ELSE /\ gui.ui_pc = "enter_hotkey"
          /\ kc' = enter_change_mode(World).kc
          /\ gui' = [gui EXCEPT !.ui_pc = "idle"]
          /\ last' = "ui_enter"
  /\ UNCHANGED <<disk, ev, lpc, tasks, cb, sess, accepted, cli>>

ClickAutoEnterButton ==
  /\ gui.auto_enter_button_enabled
  /\ LET w == enter_gui_auto_enter_key_change_mode(World)
     IN /\ kc' = w.kc /\ gui' = w.gui /\ ev' = w.ev
        /\ last' = w.path
        /\ UNCHANGED <<disk, lpc, tasks, cb, sess, accepted, cli>>

-----------------------------------------------------------------------------
(* Actions of the audio callback thread *)

\* An audio callback whose list is the object that was handed to the
\* threads: the key-up passed the list itself and the next key-down emptied
\* it in place.
AudioCallback_shared_list(level) ==
  /\ cb.pc = "idle"
  /\ gui.recording
  /\ Len(gui.audio_data) < MaxFrames
  /\ gui' = [gui EXCEPT !.audio_data = Append(@, [sess |-> sess, msq |-> level])]
  /\ tasks' = [t \in DOMAIN tasks |->
                 IF tasks[t].pc = "start"
                 THEN [tasks[t] EXCEPT !.audio = Append(@, [sess |-> sess, msq |-> level])]
                 ELSE tasks[t]]
  /\ UNCHANGED <<kc, disk, ev, last, lpc, cb, sess, accepted, cli>>

\* _audio_callback handled in one step: a block that arrives while the
\* switch is on is appended, any other block is discarded.
AudioCallback(level) ==
  /\ cb.pc = "idle"
  /\ gui.recording
  /\ Len(gui.audio_data) < MaxFrames
  /\ gui' = [gui EXCEPT !.audio_data = Append(@, [sess |-> sess, msq |-> level])]
  /\ UNCHANGED <<kc, disk, ev, last, lpc, tasks, cb, sess, accepted, cli>>

\* _audio_callback while the listener thread runs: the test of
\* self._recording.  The block is accepted for the session open at the test.
AudioCheck(level) ==
  /\ cb.pc = "idle"
  /\ gui.recording
  /\ Len(gui.audio_data) < MaxFrames
  /\ cb' = [pc |-> "append", frame |-> [sess |-> sess, msq |-> level]]
  /\ accepted' = [accepted EXCEPT ![sess] = @ + 1]
  /\ UNCHANGED <<kc, gui, disk, ev, last, lpc, tasks, sess, cli>>

\* _audio_callback: self._audio_data.append(indata.copy())
AudioAppend ==
  /\ cb.pc = "append"
  /\ gui' = [gui EXCEPT !.audio_data = Append(@, cb.frame)]
  /\ cb' = [pc |-> "idle", frame |-> NoFrame]
  /\ UNCHANGED <<kc, disk, ev, last, lpc, tasks, sess, accepted, cli>>

-----------------------------------------------------------------------------
(* Actions of a processing thread *)

\* A processing thread whose unexpected exceptions escape the finally clause.
TaskEnds_without_finally(t, reason) ==
  /\ gui' = IF reason \in {"svc_error", "type_error"} THEN gui ELSE finish(gui)
  /\ tasks' = [tasks EXCEPT ![t] = IdleTask]
  /\ last' = reason

\* The thread ends: every return and every exception of _process_audio
\* passes the finally clause.
TaskEnds(t, reason) ==
  /\ gui' = finish(gui)
  /\ tasks' = [tasks EXCEPT ![t] = IdleTask]
  /\ last' = reason

\* _process_audio up to the call of apply_whisper: the gates, then the frames
\* are written to the recording file and the thread reads them no more.
ProcStart(t) ==
  /\ tasks[t].pc = "start"
  /\ LET g == AudioGate(tasks[t].audio)
     IN IF g # "pass" THEN TaskEnds(t, g)
        ELSE /\ tasks' = [tasks EXCEPT ![t].pc = "whisper", ![t].audio = <<>>]
             /\ UNCHANGED <<gui, last>>
  /\ UNCHANGED <<kc, disk, ev, lpc, cb, sess, accepted, cli>>

WhisperOutcomes == {"text", "empty", "short", "halluc", "err_invalid", "err_other"}

\* What follows a usable transcript: the optional correction call, then the
\* injection of the text, which may raise.
AfterText(t, inj) ==
  IF inj = "ok" THEN TaskEnds(t, "typed") ELSE TaskEnds(t, "type_error")

\* apply_whisper returns or raises.
WhisperReturn(t, out, inj) ==
  /\ tasks[t].pc = "whisper"
  /\ CASE out = "err_invalid" -> TaskEnds(t, "svc_recoverable")
       [] out = "err_other" -> TaskEnds(t, "svc_error")
       [] out \in {"empty", "short"} -> TaskEnds(t, "short_text")
       [] out = "halluc" -> TaskEnds(t, "hallucination")
       [] out = "text" ->
            IF kc.use_llm /\ gui.current_prompt # None
            THEN /\ tasks' = [tasks EXCEPT ![t].pc = "correct"]
                 /\ UNCHANGED <<gui, last>>
            ELSE AfterText(t, inj)
  /\ UNCHANGED <<kc, disk, ev, lpc, cb, sess, accepted, cli>>

\* apply_gpt_correction returns (its own failure returns the transcript).
CorrectReturn(t, inj) ==
  /\ tasks[t].pc = "correct"
  /\ AfterText(t, inj)
  /\ UNCHANGED <<kc, disk, ev, lpc, cb, sess, accepted, cli>>

\* _process_audio up to the call of apply_whisper while other threads run:
\* the frames are written to the one recording file of the program
\* (viska_recording.wav in the temporary directory, then the m4a next to
\* it).  The audio of a thread at "whisper" is the content of the file it is
\* about to send, so the write replaces it for every such thread.
ProcWrite(t) ==
  /\ tasks[t].pc = "start"
  /\ LET g == AudioGate(tasks[t].audio)
     IN IF g # "pass" THEN TaskEnds(t, g)
        ELSE /\ tasks' = [u \in DOMAIN tasks |->
                           IF u = t THEN [tasks[t] EXCEPT !.pc = "whisper"]
                           ELSE IF tasks[u].pc = "whisper"
                             THEN [tasks[u] EXCEPT !.audio = tasks[t].audio]
                           ELSE tasks[u]]
             /\ UNCHANGED <<gui, last>>
  /\ UNCHANGED <<kc, disk, ev, lpc, cb, sess, accepted, cli>>

\* A processing thread run from its start to its end in one step, with the
\* answers o of the outside.
ProcRun(t, o) ==
  /\ tasks[t].pc = "start"
  /\ LET c == [use_llm |-> kc.use_llm, prompt |-> gui.current_prompt,
               send_mode |-> kc.send_mode, ffmpeg |-> o.ffmpeg,
               whisper |-> o.whisper, correct |-> o.correct,
               type |-> o.type, submit |-> o.submit]
         r == process_audio(tasks[t].audio, tasks[t].uae, c)
     IN /\ gui' = finish(gui)
        /\ ev' = r.effects
        /\ last' = r.reason
        /\ tasks' = [tasks EXCEPT ![t] = IdleTask]
  /\ UNCHANGED <<kc, disk, lpc, cb, sess, accepted, cli>>

\* get_config: the first call constructs the store, which reads the file.
Construct ==
  /\ last = "none"
  /\ LET r == KeyConfig_init(disk, "gui")
     IN /\ kc' = r.kc
        /\ last' = IF r.raised THEN "load_raised" ELSE "loaded"
  /\ UNCHANGED <<gui, disk, ev, lpc, tasks, cb, sess, accepted, cli>>

\* A call of one of the module-level functions set_hotkey,
\* set_auto_enter_key, clear_auto_enter_key and toggle_auto_enter; last holds
\* what the call returned.
DirectCall(op, key) ==
  /\ lpc = "idle"
  /\ LET w == CASE op = "set_hotkey" -> set_hotkey(World, key, disk.writable)
                [] op = "set_auto_enter_key" -> set_auto_enter_key(World, key, disk.writable)
                [] op = "clear_auto_enter_key" -> clear_auto_enter_key(World, disk.writable)
                [] op = "toggle_auto_enter" -> toggle_auto_enter(World, disk.writable)
     IN /\ kc' = w.kc /\ gui' = w.gui /\ disk' = w.disk /\ ev' = w.ev
        /\ last' = IF w.ret THEN "returned_true" ELSE "returned_false"
  /\ UNCHANGED <<lpc, tasks, cb, sess, accepted, cli>>

\* The window loses the focus.  WKeyGUI of gui_pyqt.py has no handler for
\* the event, and _on_focus_out of gui.py is bound to no event: nothing but
\* the record of the event changes.
FocusOut ==
  /\ last' = "focus_out"
  /\ UNCHANGED <<kc, gui, disk, ev, lpc, tasks, cb, sess, accepted, cli>>

\* The program ends and starts again: the store is built from the file and
\* the window from its defaults.
Restart ==
  /\ kc' = load_config(disk.file, "gui")
  /\ gui' = InitGui(None)
  /\ tasks' = [t \in DOMAIN tasks |-> IdleTask]
  /\ ev' = <<>>
  /\ last' = "restart"
  /\ lpc' = "idle"
  /\ cb' = [pc |-> "idle", frame |-> NoFrame]
  /\ UNCHANGED <<disk, sess, accepted, cli>>

-----------------------------------------------------------------------------
(* Specifications *)

KeyK == KeyCodeOf("k", 40, FALSE)

\* Keys delivered in the pipeline specification: both trigger keys.
PipelineKeys == {Key_ctrl_l, KeyK}

\* Keys delivered in the capture specification.
CaptureKeys == {Key_esc, Key_backspace, Key_ctrl_l, Key_shift, KeyK}

Injections == {"ok", "raise"}

Listener(Keys) ==
  \/ \E k \in Keys : KeyPress(k)
  \/ \E k \in Keys : KeyRelease(k)

Audio(Levels) == \E level \in Levels : AudioCallback(level)

Processing ==
  \/ \E t \in TaskIds : ProcStart(t)
  \/ \E t \in TaskIds, out \in WhisperOutcomes, inj \in Injections : WhisperReturn(t, out, inj)
  \/ \E t \in TaskIds, inj \in Injections : CorrectReturn(t, inj)

\* The GUI pipeline: sessions, frames and processing threads.
Next == Listener(PipelineKeys) \/ Audio(BlockLevels) \/ Processing

Spec == Init /\ [][Next]_vars

\* The capture state machine under key events and button clicks.
NextCapture ==
  \/ Listener(CaptureKeys)
  \/ ClickHotkeyButton
  \/ ClickAutoEnterButton
  \/ \E t \in TaskIds : ProcStart(t)

SpecCapture == InitCapture /\ [][NextCapture]_vars

\* The GUI pipeline with its threads scheduled: a started thread takes its
\* next step, and a call to the transcription or correction service returns.
InitFair ==
  /\ disk \in {[writable |-> TRUE, file |-> [FileBothKeys EXCEPT !.use_llm = u]] :
                 u \in BOOLEAN}
  /\ kc = load_config(disk.file, "gui")
  /\ gui = InitGui("fix grammar")
  /\ InitCommon(MaxFairTasks)

Fairness ==
  \A t \in 1..MaxFairTasks :
    /\ WF_vars(ProcStart(t))
    /\ WF_vars(\E out \in WhisperOutcomes, inj \in Injections : WhisperReturn(t, out, inj))
    /\ WF_vars(\E inj \in Injections : CorrectReturn(t, inj))

SpecFair == InitFair /\ [][Next]_vars /\ Fairness

\* The GUI pipeline with the audio callback thread and the listener thread
\* interleaved statement by statement.  Every block is silent, so that a
\* thread ends at the gates.
InitRace ==
  /\ disk = [writable |-> TRUE, file |-> FileBothKeys]
  /\ kc = load_config(disk.file, "gui")
  /\ gui = InitGui(None)
  /\ InitCommon(MaxRaceTasks)

RaceKeys == {Key_ctrl_l}

NextRace ==
  \/ \E k \in RaceKeys : KeyPressBegin(k)
  \/ PressFinish
  \/ \E k \in RaceKeys : KeyRelease(k)
  \/ AudioCheck(0)
  \/ AudioAppend
  \/ \E t \in TaskIds : ProcStart(t)

SpecRace == InitRace /\ [][NextRace]_vars

-----------------------------------------------------------------------------
(* wkey.py: the pipeline without a window *)

CliVars == <<gui, lpc, tasks, cb, sess, accepted>>

\* on_press
CliOnPress(key) ==
  /\ cli.alive /\ cli.pc = "idle"
  /\ LET w == handle_key_press(World, key, disk.writable)
     IN /\ kc' = w.kc /\ disk' = w.disk /\ ev' = w.ev
        /\ IF ~w.ret /\ ~is_in_change_mode(w.kc) /\ PyEq(key, w.kc.hotkey)
           THEN /\ cli' = [cli EXCEPT !.recording = TRUE, !.audio_data = <<>>]
                /\ last' = "rec_hotkey"
           ELSE /\ cli' = cli
                /\ last' = w.path
  /\ UNCHANGED CliVars

\* on_release up to the call of apply_whisper, made inside the listener
\* callback.  enc: whether writing the recording file raises.
CliOnRelease(key, enc) ==
  /\ cli.alive /\ cli.pc = "idle"
  /\ LET w == handle_key_release(World, key)
     IN /\ kc' = w.kc /\ ev' = w.ev
        /\ IF ~is_in_change_mode(w.kc) /\ PyEq(key, w.kc.hotkey)
           THEN IF cli.audio_data = <<>>
                THEN /\ cli' = [cli EXCEPT !.recording = FALSE]
                     /\ last' = "empty"
                ELSE IF enc = "raise"
                THEN /\ cli' = [cli EXCEPT !.recording = FALSE, !.alive = FALSE]
                     /\ last' = "encode_error"
                ELSE /\ cli' = [cli EXCEPT !.recording = FALSE, !.pc = "whisper"]
                     /\ last' = "handoff"
           ELSE /\ cli' = cli
                /\ last' = "none"
  /\ UNCHANGED <<disk>>
  /\ UNCHANGED CliVars

\* The end of on_release: the text is typed; an exception of the keyboard
\* controller leaves the callback.
CliAfterText(inj) ==
  IF inj = "ok"
  THEN cli' = [cli EXCEPT !.pc = "idle"] /\ last' = "typed"
  ELSE cli' = [cli EXCEPT !.pc = "idle", !.alive = FALSE] /\ last' = "type_error"

\* apply_whisper returns or raises inside on_release; only
\* InvalidRequestError is caught.
CliWhisperReturn(out, inj) ==
  /\ cli.alive /\ cli.pc = "whisper"
  /\ CASE out = "err_invalid" ->
            cli' = [cli EXCEPT !.pc = "idle"] /\ last' = "svc_recoverable"
       [] out = "err_other" ->
            cli' = [cli EXCEPT !.pc = "idle", !.alive = FALSE] /\ last' = "svc_error"
       [] out = "empty" ->
            cli' = [cli EXCEPT !.pc = "idle"] /\ last' = "short_text"
       [] out = "text" ->
            IF kc.use_llm /\ cli.current_prompt # None
            THEN cli' = [cli EXCEPT !.pc = "correct"] /\ last' = last
            ELSE CliAfterText(inj)
  /\ UNCHANGED <<kc, disk, ev>>
  /\ UNCHANGED CliVars

\* apply_gpt_correction returns inside on_release.
CliCorrectReturn(inj) ==
  /\ cli.alive /\ cli.pc = "correct"
  /\ CliAfterText(inj)
  /\ UNCHANGED <<kc, disk, ev>>
  /\ UNCHANGED CliVars

\* callback, on the thread of the audio stream.
CliCallback(level) ==
  /\ cli.recording
  /\ Len(cli.audio_data) < MaxFrames
  /\ cli' = [cli EXCEPT !.audio_data = Append(@, [sess |-> 0, msq |-> level])]
  /\ UNCHANGED <<kc, disk, ev, last>>
  /\ UNCHANGED CliVars

InitCLI ==
  /\ disk \in {[writable |-> TRUE, file |-> [FileDefault EXCEPT !.use_llm = u]] :
                 u \in BOOLEAN}
  /\ kc = load_config(disk.file, "cli")
  /\ gui = InitGui(None)
  /\ InitCommon(MaxRaceTasks)

CliKeys == {Key_ctrl_l, Key_shift, KeyK}

CliWhisperOutcomes == {"text", "empty", "err_invalid", "err_other"}

NextCLI ==
  \/ \E k \in CliKeys : CliOnPress(k)
  \/ \E k \in CliKeys, enc \in Injections : CliOnRelease(k, enc)
  \/ \E out \in CliWhisperOutcomes, inj \in Injections : CliWhisperReturn(out, inj)
  \/ \E inj \in Injections : CliCorrectReturn(inj)
  \/ \E level \in BlockLevels : CliCallback(level)

SpecCLI == InitCLI /\ [][NextCLI]_vars

\* The capture of a new key with internal errors: the setter, the persistence
\* or a registered callback may raise while a captured key is processed.
ExceptKeys == {Key_esc, Key_ctrl_l, Key_shift, KeyK}

ExceptPoints == {"setter", "persist", "callback"}

NextExcept ==
  \/ Listener(ExceptKeys)
  \/ ClickHotkeyButton
  \/ ClickAutoEnterButton
  \/ \E k \in ExceptKeys, at \in ExceptPoints : KeyPressExcept(k, at)
  \/ \E t \in TaskIds : ProcStart(t)

SpecExcept == InitCapture /\ [][NextExcept]_vars

\* The chords Ctrl+Shift+K and Ctrl+Shift+E next to the captures.
KeyE == KeyCodeOf("e", 14, FALSE)

ChordKeys == {Key_esc, Key_ctrl_l, Key_shift, KeyK, KeyE}

NextChord ==
  \/ Listener(ChordKeys)
  \/ ClickHotkeyButton
  \/ ClickAutoEnterButton
  \/ \E t \in TaskIds : ProcStart(t)

SpecChord == InitCapture /\ [][NextChord]_vars

\* _process_audio applied to every recording of up to MaxFrames blocks, for
\* every setting it reads and every answer of the outside.
T_hello == <<"h", "e", "l", "l", "o">>
T_corrected == <<" ", "H", "e", "l", "l", "o", ".", " ">>
T_fix_grammar == <<"f", "i", "x", " ", "g", "r", "a", "m", "m", "a", "r">>

\* "", " a ", "hello", "thank you for watching", " Thank you for watching. ",
\* "your cat"
Transcripts ==
  {<<>>, <<" ", "a", " ">>, T_hello,
   <<"t", "h", "a", "n", "k", " ", "y", "o", "u", " ", "f", "o", "r", " ", "w", "a", "t", "c", "h", "i", "n", "g">>,
   <<" ", "T", "h", "a", "n", "k", " ", "y", "o", "u", " ", "f", "o", "r", " ", "w", "a", "t", "c", "h", "i", "n", "g", ".", " ">>,
   <<"y", "o", "u", "r", " ", "c", "a", "t">>}

Prompts == {<<>>, <<" ">>, T_fix_grammar}

SendModes == {"cmd+enter", "enter"}

WhisperAnswers ==
  {[kind |-> "text", text |-> x] : x \in Transcripts}
    \cup {[kind |-> k, text |-> <<>>] : k \in {"err_invalid", "err_value", "err_other"}}

CorrectAnswers ==
  {[kind |-> "text", text |-> T_corrected], [kind |-> "raise", text |-> <<>>]}

Answers ==
  [ffmpeg : {"ok", "fail", "error"}, whisper : WhisperAnswers, correct : CorrectAnswers,
   type : Injections, submit : Injections]

RECURSIVE Recordings(_)
Recordings(n) ==
  IF n = 0 THEN {<<>>}
  ELSE Recordings(n - 1)
         \cup {Append(a, [sess |-> 0, msq |-> m]) :
                 a \in {b \in Recordings(n - 1) : Len(b) = n - 1}, m \in BlockLevels}

\* The state after a key-up handed a recording to a thread.
InitProcess ==
  /\ disk \in {[writable |-> TRUE,
                file |-> [FileBothKeys EXCEPT !.use_llm = u, !.send_mode = m]] :
                 u \in BOOLEAN, m \in SendModes}
  /\ kc = load_config(disk.file, "gui")
  /\ gui \in {[InitGui(p) EXCEPT !.status = "processing"] : p \in Prompts}
  /\ tasks \in [{1} ->
                 {[pc |-> "start", audio |-> a, uae |-> u, sess |-> 0] :
                    a \in Recordings(MaxFrames), u \in BOOLEAN}]
  /\ ev = <<>>
  /\ last = "none"
  /\ lpc = "idle"
  /\ cb = [pc |-> "idle", frame |-> NoFrame]
  /\ sess = 0
  /\ accepted = [s \in SessionIds |-> 0]
  /\ cli = InitCli

NextProcess == \E t \in TaskIds, o \in Answers : ProcRun(t, o)

SpecProcess == InitProcess /\ [][NextProcess]_vars

\* Sessions from the key-down to the injected keys: the listener with both
\* trigger keys bound, loud audio blocks, and threads whose transcription
\* answers "hello".
InitSubmit ==
  /\ disk \in {[writable |-> TRUE, file |-> [FileBothKeys EXCEPT !.send_mode = m]] :
                 m \in SendModes}
  /\ kc = load_config(disk.file, "gui")
  /\ gui = InitGui(<<>>)
  /\ InitCommon(MaxRaceTasks)

SubmitAnswers ==
  {o \in Answers : /\ o.ffmpeg = "ok"
                   /\ o.whisper = [kind |-> "text", text |-> T_hello]
                   /\ o.correct.kind = "raise"}

NextSubmit ==
  \/ Listener(PipelineKeys)
  \/ Audio({100})
  \/ \E t \in TaskIds, o \in SubmitAnswers : ProcRun(t, o)

SpecSubmit == InitSubmit /\ [][NextSubmit]_vars

\* The construction of the store for every content of the file: the fields
\* hold the values __init__ assigns before it calls _load_config.
InitLoad ==
  /\ disk \in [writable : {TRUE},
                kind : {"absent", "unreadable", "undecodable", "invalid_json",
                        "not_object", "object"},
                types : {"strings", "hotkey_number", "auto_enter_key_number"},
                file : {[EmptyFile EXCEPT !.hotkey = h, !.auto_enter_key = a,
                                          !.send_mode = m] :
                          h \in {None, "", "ctrl_l", "k", "vk_65", "vk_x", "bogus"},
                          a \in {None, "", "k", "esc"},
                          m \in {"cmd+enter", "enter", "tab"}}]
  /\ kc = [load_config(EmptyFile, "gui") EXCEPT !.hotkey_label = None, !.hotkey = NoKey]
  /\ gui = InitGui(None)
  /\ InitCommon(MaxCaptureTasks)

SpecLoad == InitLoad /\ [][Construct]_vars

\* Captures of named keys, character keys (one of them dead, one with a
\* capital) and keys that carry only a virtual-key code, each followed by a
\* restart that reads the labels back.
ReloadKeys ==
  {Key_ctrl_l, Key_shift, KeyK, KeyCodeOf("^", 10, TRUE), KeyCodeOf("K", 40, FALSE),
   from_vk(65), from_vk(101)}

NextReload ==
  \/ \E k \in ReloadKeys : KeyPress(k)
  \/ ClickHotkeyButton
  \/ ClickAutoEnterButton
  \/ Restart

SpecReload == InitCapture /\ [][NextReload]_vars

\* The store and the window under calls of the setters, captures and the
\* loss of the focus.
NextSetters ==
  \/ \E op \in {"set_hotkey", "set_auto_enter_key", "clear_auto_enter_key",
                 "toggle_auto_enter"}, k \in {Key_ctrl_l, Key_shift, KeyK} :
       DirectCall(op, k)
  \/ \E k \in CaptureKeys : KeyPress(k)
  \/ ClickHotkeyButton
  \/ ClickAutoEnterButton
  \/ FocusOut

SpecSetters == InitCapture /\ [][NextSetters]_vars

\* The hotkey capture with the UI thread and the listener thread
\* interleaved; no chord can be pressed with these keys.
NextEnter ==
  \/ \E k \in {Key_esc, Key_ctrl_l, KeyK} : KeyPress(k)
  \/ \E k \in {Key_esc, Key_ctrl_l, KeyK} : KeyRelease(k)
  \/ ClickHotkeyStep

SpecEnter == InitCapture /\ [][NextEnter]_vars

\* Sessions with their ids, loud blocks, and threads that share the
\* recording file.
NextFile ==
  \/ KeyPressBegin(Key_ctrl_l)
  \/ PressFinish
  \/ KeyRelease(Key_ctrl_l)
  \/ AudioCallback(100)
  \/ \E t \in TaskIds : ProcWrite(t)
  \/ \E t \in TaskIds, out \in WhisperOutcomes, inj \in Injections : WhisperReturn(t, out, inj)
  \/ \E t \in TaskIds, inj \in Injections : CorrectReturn(t, inj)

SpecFile == Init /\ [][NextFile]_vars

-----------------------------------------------------------------------------
(* Claims about the recording session and the processing thread *)

IsTrigger(key) == PyEq(key, kc.hotkey) \/ PyEq(key, kc.auto_enter_key)

Busy == gui.status \in {"recording", "processing"}

Running == {t \in TaskIds : tasks[t].pc # "idle"}

\* C1: a trigger key-down handled while status is Recording or Processing is
\* ignored: the handler leaves the recording switch, the frames, the
\* started-by-auto-enter flag and the status as they were.
C1_BusyKeyDownIgnored ==
  [][\A k \in PipelineKeys :
       (Busy /\ IsTrigger(k) /\ ~is_in_change_mode(kc) /\ KeyPress(k))
         => /\ gui'.recording = gui.recording
            /\ gui'.audio_data = gui.audio_data
            /\ gui'.recording_with_auto_enter = gui.recording_with_auto_enter
            /\ gui'.status = gui.status]_vars

\* C2: at most one processing thread is in flight, and while one is in flight
\* no recording session is open.
C2_OneTaskInFlight ==
  /\ Cardinality(Running) <= 1
  /\ Running # {} => ~gui.recording

\* C3: every processing thread that is started ends with status set to Ready,
\* whichever step it exits at.
C3_TaskReachesReady ==
  \A t \in 1..MaxFairTasks :
    (tasks[t].pc # "idle") ~> (tasks[t].pc = "idle" /\ gui.status = "ready")

\* A thread that exited by an unexpected exception of the service left Ready.
C3_Witness ==
  last = "svc_error" /\ gui.status = "ready" /\ Running = {}

-----------------------------------------------------------------------------
(* Claims about the threads *)

\* C4: no outcome of a dictation attempt ends the key listener: whatever the
\* encoding, the services or the key injection raise, the listener of the
\* pipeline without a window keeps running.
C4_ListenerSurvives == cli.alive

\* C5: the key listener is never inside a callback that waits for the
\* transcription or the correction service.
C5_ListenerNeverWaits == cli.pc \notin {"whisper", "correct"}

\* C6: when a processing thread starts, the frames it was handed are the
\* blocks the audio callback accepted during its session: every accepted
\* block is there, and no block of another session.
C6_FramesKept ==
  \A t \in TaskIds :
    tasks[t].pc = "start" =>
      /\ \A i \in 1..Len(tasks[t].audio) : tasks[t].audio[i].sess = tasks[t].sess
      /\ Len(tasks[t].audio) = accepted[tasks[t].sess]

-----------------------------------------------------------------------------
(* Claims about the capture of a new key *)

\* The fields of the configuration.
ConfigOf(k) ==
  [hotkey |-> k.hotkey, hotkey_label |-> k.hotkey_label,
   auto_enter |-> k.auto_enter, auto_enter_key |-> k.auto_enter_key,
   auto_enter_key_label |-> k.auto_enter_key_label, language |-> k.language,
   use_llm |-> k.use_llm, send_mode |-> k.send_mode]

CaptureFlags ==
  {kc.in_change_mode, kc.in_auto_enter_key_change_mode,
   gui.gui_hotkey_change_mode, gui.gui_auto_enter_key_change_mode}

CaptureActive == TRUE \in CaptureFlags

\* The capture handler _on_key_press hands the next key-down to.
InHotkeyCapture ==
  \/ gui.gui_hotkey_change_mode
  \/ ~gui.gui_auto_enter_key_change_mode /\ kc.in_change_mode

InAutoEnterCapture ==
  ~gui.gui_hotkey_change_mode /\ gui.gui_auto_enter_key_change_mode

\* C7: Escape pressed while a capture mode is active changes no field of the
\* configuration or of its file and clears every capture flag, those of the
\* key configuration and those of the GUI.
C7_EscapeEndsCapture ==
  [][(CaptureActive /\ KeyPress(Key_esc))
       => /\ ConfigOf(kc') = ConfigOf(kc)
          /\ disk' = disk
          /\ ~CaptureActive']_vars

C9_KeysDistinct == ~keys_are_equal(kc.hotkey, kc.auto_enter_key)

\* A hotkey was bound by a capture while the auto-enter capture was armed too
\* and an auto-enter key is bound.
C9_Witness ==
  /\ last = "hk_bound"
  /\ gui.gui_auto_enter_key_change_mode
  /\ kc.auto_enter_key # NoKey
  /\ kc.hotkey # Key_ctrl_l

\* C10: with a writable configuration file, a candidate that is neither
\* Escape, nor Backspace in the auto-enter capture, nor equal to the other
\* bound key becomes the key of the capture that handles it, every capture
\* flag is cleared and the change callback fires once with (old key, new key).
C10_CandidateBound ==
  [][\A k \in CaptureKeys \ {Key_esc} :
       /\ (disk.writable /\ InHotkeyCapture
             /\ ~keys_are_equal(k, kc.auto_enter_key) /\ KeyPress(k))
            => /\ kc'.hotkey = k
               /\ ~CaptureActive'
               /\ ev' = <<[cb |-> "hotkey_change", old |-> kc.hotkey, new |-> k]>>
       /\ (disk.writable /\ InAutoEnterCapture /\ k # Key_backspace
             /\ ~keys_are_equal(k, kc.hotkey) /\ KeyPress(k))
            => /\ kc'.auto_enter_key = k
               /\ ~CaptureActive'
               /\ ev' = <<[cb |-> "auto_enter_key_change",
                           old |-> kc.auto_enter_key, new |-> k]>>]_vars


C12_ErrorEndsCapture ==
  [][\A k \in ExceptKeys, at \in ExceptPoints :
       KeyPressExcept(k, at)
         => /\ last' \in {"hk_error", "ae_error"}
            /\ gui'.recording = gui.recording
            /\ ~CaptureActive']_vars


-----------------------------------------------------------------------------
(* Claims about the chords and the held modifiers *)

\* A Control key and a Shift key are in the held-set.
ChordHeld ==
  /\ \E m \in CHANGE_MODE_MODIFIERS : m \in kc.pressed_modifiers
  /\ \E m \in CHANGE_MODE_SHIFT : m \in kc.pressed_modifiers

ChordPaths == {"chord_k", "chord_e"}

\* C13: with no capture active and a Control and a Shift key held, "k" enters
\* the hotkey capture and "e" flips auto-enter, fires the state callback with
\* the new state and enters no capture; either key is consumed and starts no
\* recording.  While a capture is active a key-down fires neither chord.
C13_ChordOnlyWhenIdle ==
  [][/\ (~CaptureActive /\ ChordHeld /\ KeyPress(KeyK))
          => /\ last' = "chord_k"
             /\ kc'.in_change_mode
             /\ ConfigOf(kc') = ConfigOf(kc)
             /\ gui'.recording = gui.recording /\ gui'.status = gui.status
     /\ (~CaptureActive /\ ChordHeld /\ KeyPress(KeyE))
          => /\ last' = "chord_e"
             /\ kc'.auto_enter = ~kc.auto_enter
             /\ ev' = <<[cb |-> "auto_enter_change", old |-> NoKey,
                         new |-> IF kc'.auto_enter THEN Key_ctrl ELSE NoKey]>>
             /\ ~CaptureActive'
             /\ gui'.recording = gui.recording /\ gui'.status = gui.status
     /\ \A k \in ChordKeys :
          (CaptureActive /\ KeyPress(k))
            => /\ last' \notin ChordPaths
               /\ \A i \in 1..Len(ev') : ev'[i].cb # "auto_enter_change"]_vars

\* The chord "e" has just switched auto-enter on, with a Control and a Shift
\* key still held and no capture active.
C13_Witness ==
  /\ last = "chord_e"
  /\ kc.auto_enter
  /\ ChordHeld
  /\ ~CaptureActive


\* C14: the held-set holds only Control and Shift keys whose latest event was
\* a press: a key-up removes its key from the set in every mode, and a key
\* enters the set only by its own key-down.
C14_HeldModifiers ==
  [][/\ \A k \in ChordKeys : KeyRelease(k) => k \notin kc'.pressed_modifiers
     /\ \A m \in kc'.pressed_modifiers \ kc.pressed_modifiers :
          /\ m \in CHANGE_MODE_MODIFIERS \cup CHANGE_MODE_SHIFT
          /\ KeyPress(m)]_vars

\* A key-up arrived during a capture and only the key still down is held.
C14_Witness ==
  /\ last = "skip"
  /\ kc.in_change_mode
  /\ kc.pressed_modifiers = {Key_shift}


\* C15: auto-enter is enabled exactly when an auto-enter key is bound.
C15_EnabledIffKeyBound == kc.auto_enter <=> (kc.auto_enter_key # NoKey)


-----------------------------------------------------------------------------
(* Claims about the processing pipeline *)

EffectsOf(effects, kinds) == {i \in 1..Len(effects) : effects[i].e \in kinds}

\* C16: a thread whose recording is empty, has fewer than 8000 samples
\* (whatever its energy) or has a mean square below the threshold ends with
\* status ready without writing or encoding a file, without calling the
\* transcription service and without injecting a key; a recording of fewer
\* than 8000 samples is never let through by the energy of its blocks.
C16_GatesBeforeRemoteCall ==
  [][\A t \in TaskIds : \A o \in Answers :
       LET audio == tasks[t].audio
           short == Len(audio) * BlockSamples < 8000
           quiet == SumMsq(audio) < MinMeanSquare * Len(audio)
       IN ((audio = <<>> \/ short \/ quiet) /\ ProcRun(t, o))
            => /\ EffectsOf(ev', {"write_wav", "ffmpeg", "whisper", "correct",
                                    "type", "press", "release"}) = {}
               /\ gui'.status = "ready"
               /\ last' \in {"empty", "too_short", "silent"}]_vars

C16_Witness ==
  /\ last = "too_short"
  /\ ev = <<>>
  /\ gui.status = "ready"
  /\ tasks[1] = IdleTask

\* C17: a transcript that, trimmed and lowercased, equals or starts with a
\* phrase of the hallucination list is discarded: no correction call, no
\* text, no key press or release, and status ready.
C17_HallucinationDiscarded ==
  [][\A t \in TaskIds : \A o \in Answers :
       LET tl == lower(strip(o.whisper.text))
       IN (/\ AudioGate(tasks[t].audio) = "pass"
           /\ o.whisper.kind = "text"
           /\ \E p \in HALLUCINATION_PHRASES : tl = p \/ startswith(tl, p)
           /\ ProcRun(t, o))
            => /\ EffectsOf(ev', {"correct", "type", "press", "release"}) = {}
               /\ gui'.status = "ready"]_vars

C17_Witness ==
  /\ last = "hallucination"
  /\ EffectsOf(ev, {"whisper"}) # {}
  /\ EffectsOf(ev, {"correct", "type", "press", "release"}) = {}
  /\ gui.status = "ready"

\* C18: with correction enabled and an instruction that is not blank, a
\* correction call that raises does not end the thread: the text typed is
\* the transcript followed by one space, typed once.  With correction
\* disabled or no instruction, the correction service is not called.
C18_CorrectionFallback ==
  [][\A t \in TaskIds : \A o \in Answers :
       (/\ AudioGate(tasks[t].audio) = "pass"
        /\ o.ffmpeg # "error"
        /\ o.whisper.kind = "text"
        /\ Len(strip(o.whisper.text)) >= MIN_TRANSCRIPT_LENGTH
        /\ ~is_hallucination(o.whisper.text)
        /\ o.type = "ok"
        /\ ProcRun(t, o))
         => /\ (kc.use_llm /\ strip(gui.current_prompt) # <<>> /\ o.correct.kind = "raise")
                 => /\ Cardinality(EffectsOf(ev', {"correct"})) = 1
                    /\ Cardinality(EffectsOf(ev', {"type"})) = 1
                    /\ \A i \in EffectsOf(ev', {"type"}) :
                          ev'[i].arg = o.whisper.text \o <<" ">>
                    /\ last' = "typed"
            /\ (~kc.use_llm \/ gui.current_prompt = <<>>)
                 => EffectsOf(ev', {"correct"}) = {}]_vars

C18_Witness ==
  /\ last = "typed"
  /\ kc.use_llm
  /\ gui.current_prompt = T_fix_grammar
  /\ EffectsOf(ev, {"correct"}) # {}
  /\ \E i \in EffectsOf(ev, {"type"}) : ev[i].arg = T_hello \o <<" ">>

\* C19: an auto-enter thread that typed its text injects, after the text,
\* a release of each of the twelve modifier keys and then the submit keys:
\* Cmd down, Enter down, Enter up, Cmd up with send mode "cmd+enter", Enter
\* down, Enter up with send mode "enter"; no submit key comes before the
\* last modifier release.
C19_SubmitOrder ==
  [][\A t \in TaskIds : \A o \in Answers :
       (/\ tasks[t].uae
        /\ o.submit = "ok"
        /\ ProcRun(t, o)
        /\ last' = "typed")
         => LET n == Len(ev')
                submit == IF kc.send_mode = "cmd+enter"
                          THEN <<Effect("press", <<"cmd">>), Effect("press", <<"enter">>),
                                 Effect("release", <<"enter">>), Effect("release", <<"cmd">>)>>
                          ELSE <<Effect("press", <<"enter">>), Effect("release", <<"enter">>)>>
                k == Len(submit)
                m == Len(SubmitModifiers)
            IN /\ n >= k + m + 1
               /\ SubSeq(ev', n - k + 1, n) = submit
               /\ \A i \in 1..m :
                     ev'[n - k - m + i] = Effect("release", <<SubmitModifiers[i]>>)
               /\ ev'[n - k - m].e = "type"
               /\ EffectsOf(SubSeq(ev', 1, n - k), {"press"}) = {}
               /\ \A i \in 1..(n - k) : ev'[i].arg # <<"enter">>
               /\ {SubmitModifiers[i] : i \in 1..m} =
                     {"shift", "shift_l", "shift_r", "ctrl", "ctrl_l", "ctrl_r",
                      "alt", "alt_l", "alt_r", "cmd", "cmd_l", "cmd_r"}]_vars

C19_Witness ==
  /\ last = "typed"
  /\ kc.send_mode = "cmd+enter"
  /\ Len(ev) >= 17
  /\ ev[Len(ev)] = Effect("release", <<"cmd">>)
  /\ ev[Len(ev) - 3] = Effect("press", <<"cmd">>)


\* C20: the submit keys follow the typed text of a session exactly when the
\* key-down that opened the session was the auto-enter key: the opening
\* key-down sets the auto-enter flag to "the key is the auto-enter key", no
\* key-down during the session changes the flag or the session, the key-up
\* that ends the session hands the flag to the thread, and a thread that
\* typed presses the submit keys exactly when it holds the flag.
C20_SubmitIffOpenedByAutoEnterKey ==
  [][/\ \A k \in PipelineKeys :
          (~gui.recording /\ KeyPress(k) /\ gui'.recording)
            => gui'.recording_with_auto_enter = PyEq(k, kc.auto_enter_key)
     /\ \A k \in PipelineKeys :
          (gui.recording /\ KeyPress(k))
            => /\ gui'.recording
               /\ gui'.recording_with_auto_enter = gui.recording_with_auto_enter
     /\ \A k \in PipelineKeys :
          (gui.recording /\ KeyRelease(k) /\ last' = "handoff")
            => \E t \in TaskIds : /\ tasks[t].pc = "idle"
                                  /\ tasks'[t].pc = "start"
                                  /\ tasks'[t].uae = gui.recording_with_auto_enter
     /\ \A t \in TaskIds : \A o \in SubmitAnswers :
          (ProcRun(t, o) /\ last' = "typed" /\ o.submit = "ok")
            => (EffectsOf(ev', {"press"}) # {}) = tasks[t].uae]_vars


-----------------------------------------------------------------------------
(* Claims about the session buffer, the configuration file and the labels *)

\* C21: the key-up of a session that appended no block hands the empty
\* sequence to a thread; the thread ends at the first gate with status ready
\* and injects nothing; the key-down of the next session starts from the
\* empty sequence; and no step changes the sequence a thread was handed
\* while the thread has not read it, whatever is appended to the sequence of
\* the open session.
C21_EmptyHandoffIndependent ==
  [][/\ \A k \in PipelineKeys :
          (gui.recording /\ gui.audio_data = <<>> /\ KeyRelease(k) /\ last' = "handoff")
            => \E t \in TaskIds : /\ tasks[t].pc = "idle"
                                  /\ tasks'[t].pc = "start"
                                  /\ tasks'[t].audio = <<>>
     /\ \A t \in TaskIds :
          (tasks[t].pc = "start" /\ tasks[t].audio = <<>> /\ ProcStart(t))
            => /\ last' = "empty"
               /\ gui'.status = "ready"
               /\ ev' = ev
               /\ tasks'[t] = IdleTask
     /\ \A k \in PipelineKeys :
          (~gui.recording /\ KeyPress(k) /\ gui'.recording) => gui'.audio_data = <<>>
     /\ \A t \in TaskIds :
          (tasks[t].pc = "start" /\ tasks'[t].pc = "start")
            => tasks'[t].audio = tasks[t].audio]_vars

\* A thread holds the empty sequence of the last session while the open
\* session has appended a block.
C21_Witness ==
  \E t \in TaskIds : /\ tasks[t].pc = "start"
                     /\ tasks[t].audio = <<>>
                     /\ gui.recording
                     /\ gui.audio_data # <<>>


\* C22: the construction of the store completes for every content of the
\* configuration file.
C22_LoadNeverRaises == last # "load_raised"


\* C23: a key written to the file as its label and read back is the same
\* key under keys_are_equal: whenever the file holds the label of the bound
\* hotkey (of the bound auto-enter key), the restart binds a key equal to it,
\* and a key that carries only a virtual-key code comes back with its code.
C23_LabelRoundTrip ==
  [][/\ (disk.file.hotkey = key_to_label(kc.hotkey) /\ Restart)
          => /\ keys_are_equal(kc'.hotkey, kc.hotkey)
             /\ (kc.hotkey.t = "KeyCode" /\ kc.hotkey.char = None)
                  => kc'.hotkey = from_vk(kc.hotkey.vk)
     /\ (/\ kc.auto_enter_key # NoKey
         /\ disk.file.auto_enter_key = key_to_label(kc.auto_enter_key)
         /\ Restart)
          => keys_are_equal(kc'.auto_enter_key, kc.auto_enter_key)]_vars

\* The program restarted with a virtual-key code as hotkey and a dead key
\* as auto-enter key.
C23_Witness ==
  /\ last = "restart"
  /\ kc.hotkey = from_vk(65)
  /\ kc.auto_enter_key = from_char("^")


\* C24: a call of set_hotkey, set_auto_enter_key or clear_auto_enter_key
\* that returns true has invoked the registered callback once with the old
\* and the new key, a call that returns false has invoked none; the same
\* holds for the capture that binds or clears a key.
C24_CallbackOncePerChange ==
  [][/\ \A op \in {"set_hotkey", "set_auto_enter_key", "clear_auto_enter_key"} :
          \A k \in {Key_ctrl_l, Key_shift, KeyK} :
            DirectCall(op, k)
              => /\ (last' = "returned_true")
                      => /\ Len(ev') = 1
                         /\ ev'[1].old = (IF op = "set_hotkey" THEN kc.hotkey
                                          ELSE kc.auto_enter_key)
                         /\ ev'[1].new = (IF op = "set_hotkey" THEN kc'.hotkey
                                          ELSE kc'.auto_enter_key)
                 /\ (last' = "returned_false") => ev' = <<>>
     /\ \A k \in CaptureKeys :
          (CaptureActive /\ KeyPress(k))
            => IF last' \in {"hk_bound", "ae_bound", "ae_clear"} /\ disk.writable
               THEN Len(ev') = 1 ELSE ev' = <<>>]_vars

\* C25: a setter that returns true leaves in the file the in-memory value
\* of every field, and a setter whose write fails returns false.
C25_SettersPersist ==
  [][\A op \in {"set_hotkey", "set_auto_enter_key", "clear_auto_enter_key",
                 "toggle_auto_enter"} :
       \A k \in {Key_ctrl_l, Key_shift, KeyK} :
         DirectCall(op, k)
           => /\ (last' = "returned_true") => disk'.file = ConfigRecord(kc')
              /\ ~disk.writable => last' = "returned_false"]_vars


-----------------------------------------------------------------------------
(* Claims about the window and the status *)

\* C26: once the window has lost the focus no capture is active.
C26_FocusOutEndsCapture == (last = "focus_out") => ~CaptureActive


\* C27: under every interleaving of the two statements of a click with key
\* events, a capture the listener completed has left both flags unset once
\* the click handler has returned, and a key-down that arrives with the
\* click handler returned and the GUI flag unset binds no key.
C27_EnterCaptureSynchronized ==
  [][/\ (gui'.ui_pc = "idle" /\ kc'.in_change_mode) => gui'.gui_hotkey_change_mode
     /\ \A k \in {Key_esc, Key_ctrl_l, KeyK} :
          (gui.ui_pc = "idle" /\ ~gui.gui_hotkey_change_mode /\ KeyPress(k))
            => last' # "hk_bound"]_vars


\* C28: the two capture modes are never active together, in the window and
\* in the store.
C28_OneCaptureAtATime ==
  /\ ~(gui.gui_hotkey_change_mode /\ gui.gui_auto_enter_key_change_mode)
  /\ ~(kc.in_change_mode /\ kc.in_auto_enter_key_change_mode)


\* C29: the status changes only from ready to recording, from recording to
\* processing and from processing to ready, and it does not become ready
\* while a session stays open.
C29_StatusTransitions ==
  [][/\ (gui'.status # gui.status)
          => <<gui.status, gui'.status>> \in
               {<<"ready", "recording">>, <<"recording", "processing">>,
                <<"processing", "ready">>}
     /\ (gui.recording /\ gui'.recording) => gui'.status # "ready"]_vars

\* C30: a key-up closes the open session only if it is the key-up of the
\* key whose key-down opened the session: the auto-enter key for a session
\* with the auto-enter flag, the hotkey for a session without it.
C30_ClosedByOpeningKey ==
  [][\A k \in PipelineKeys :
       (gui.recording /\ KeyRelease(k) /\ ~gui'.recording)
         => PyEq(k, IF gui.recording_with_auto_enter THEN kc.auto_enter_key
                    ELSE kc.hotkey)]_vars


-----------------------------------------------------------------------------
(* Claims about the failures of the services and of the file *)

\* C31: whatever error the transcription service raises, the thread types
\* nothing, calls no correction, presses no key and ends with status ready;
\* an error that is not recoverable is logged, a recoverable one is not.
C31_ServiceErrorsEndReady ==
  [][\A t \in TaskIds : \A o \in Answers :
       (/\ AudioGate(tasks[t].audio) = "pass"
        /\ o.ffmpeg # "error"
        /\ o.whisper.kind # "text"
        /\ ProcRun(t, o))
         => /\ EffectsOf(ev', {"correct", "type", "press", "release"}) = {}
            /\ gui'.status = "ready"
            /\ (EffectsOf(ev', {"log"}) # {}) = (o.whisper.kind # "err_invalid")]_vars


\* C32: a transcript that is empty or has fewer than 2 characters between
\* its first and its last non-blank character ends the thread with status
\* ready, without a correction call and without an injected event; so a
\* thread that types was given a transcript of at least 2 such characters.
C32_ShortTranscriptDiscarded ==
  [][\A t \in TaskIds : \A o \in Answers :
       LET text == o.whisper.text
           solid == {i \in 1..Len(text) : text[i] \notin WhiteSpace}
           trimmed == IF solid = {} THEN 0
                      ELSE (CHOOSE i \in solid : \A j \in solid : j <= i)
                             - (CHOOSE i \in solid : \A j \in solid : i <= j) + 1
       IN (/\ AudioGate(tasks[t].audio) = "pass"
           /\ o.whisper.kind = "text"
           /\ ProcRun(t, o))
            => /\ (trimmed < 2)
                    => /\ EffectsOf(ev', {"correct", "type", "press", "release"}) = {}
                       /\ gui'.status = "ready"
               /\ (EffectsOf(ev', {"type"}) # {}) => trimmed >= 2]_vars

\* A transcript that is empty or " a " was discarded after the service call.
C32_Witness ==
  /\ last = "short_text"
  /\ EffectsOf(ev, {"whisper"}) # {}
  /\ EffectsOf(ev, {"correct", "type", "press", "release"}) = {}
  /\ gui.status = "ready"

\* C33: whatever the encoder does, the thread goes on to the transcription
\* service: with the compressed file when the encoder succeeded, with the
\* uncompressed file otherwise.
C33_EncoderFailureNonFatal ==
  [][\A t \in TaskIds : \A o \in Answers :
       (AudioGate(tasks[t].audio) = "pass" /\ ProcRun(t, o))
         => \E i \in EffectsOf(ev', {"whisper"}) :
              ev'[i].arg = <<IF o.ffmpeg = "ok" THEN "m4a" ELSE "wav">>]_vars


\* C34: the send mode of a constructed store is "enter" or "cmd+enter".
C34_SendModeKnown == (last = "loaded") => kc.send_mode \in SendModes


\* C35: once the key-up of the key that opened a session has been handled,
\* the recording switch is off and the status is not recording.
C35_SessionEndsWithKeyUp ==
  [][\A k \in CaptureKeys :
       (/\ gui.recording
        /\ PyEq(k, IF gui.recording_with_auto_enter THEN kc.auto_enter_key
                   ELSE kc.hotkey)
        /\ KeyRelease(k))
         => ~gui'.recording /\ gui'.status # "recording"]_vars

\* C36: a capture whose write fails leaves the hotkey, the auto-enter key
\* and the auto-enter flag as they were and ends with every capture flag
\* unset.
C36_FailedBindingNotApplied ==
  [][\A k \in CaptureKeys :
       (~disk.writable /\ CaptureActive /\ KeyPress(k)
          /\ last' \in {"hk_savefail", "ae_savefail"})
         => /\ kc'.hotkey = kc.hotkey
            /\ kc'.auto_enter_key = kc.auto_enter_key
            /\ kc'.auto_enter = kc.auto_enter
            /\ ~CaptureActive']_vars

\* C37: Escape is never the hotkey nor the auto-enter key, and Backspace is
\* never the auto-enter key.
C37_EscapeAndBackspaceUnbound ==
  /\ ~PyEq(kc.hotkey, Key_esc)
  /\ ~PyEq(kc.auto_enter_key, Key_esc)
  /\ ~PyEq(kc.auto_enter_key, Key_backspace)

\* Backspace was bound as hotkey by a capture, and Escape cancelled an
\* auto-enter capture that had a key to replace.
C37_Witness ==
  /\ last = "ae_esc"
  /\ kc.hotkey = Key_backspace
  /\ kc.auto_enter_key = KeyK
  /\ ~kc.in_auto_enter_key_change_mode


\* C38: the file a thread sends to the transcription service holds the
\* blocks of the session that started the thread.
C38_OwnAudioTranscribed ==
  [][\A t \in TaskIds : \A out \in WhisperOutcomes : \A inj \in Injections :
       (tasks[t].pc = "whisper" /\ WhisperReturn(t, out, inj))
         => \A i \in 1..Len(tasks[t].audio) : tasks[t].audio[i].sess = tasks[t].sess]_vars

====
